---- MODULE Spec2Model ----
(***************************************************************************)
(* A model of package format of txix-open/swag (src/format/format.go):     *)
(* Format.Build walks the configured search directories with               *)
(* filepath.Walk, filters entries through the exclusion map, passes the    *)
(* surviving files through the swag formatter and replaces the files whose *)
(* content changed through a temporary file and a rename.  Format.Run      *)
(* formats one stream.                                                     *)
(*                                                                         *)
(* Paths and file contents are strings; the path functions of the Go       *)
(* standard library that the code calls (strings.Split, strings.TrimSpace, *)
(* strings.ToLower, strings.HasSuffix, filepath.Clean, Join, Base, Ext,    *)
(* Dir) are computed character by character.                               *)
(***************************************************************************)
EXTENDS Integers, Sequences, FiniteSets, TLC

(***************************************************************************)
(* Bounds of the model.                                                    *)
(***************************************************************************)
\* Build calls made on the one Format value
MaxBuilds == 2
\* Run calls made on the one Format value
MaxRuns == 1
\* system calls that fail during the whole behaviour
MaxFaults == 1

(***************************************************************************)
(* Strings.                                                                *)
(***************************************************************************)
Ch(s, i) == SubSeq(s, i, i)

\* the characters of the model's paths in byte order (sort.Strings order)
Alphabet == " ,./0123456789ABCDEFGHIJKLMNOPQRSTUVWXYZ_abcdefghijklmnopqrstuvwxyz"

CodeOf == [c \in {Ch(Alphabet, i) : i \in 1..Len(Alphabet)} |->
              CHOOSE i \in 1..Len(Alphabet) : Ch(Alphabet, i) = c]

Code(c) == IF c \in DOMAIN CodeOf THEN CodeOf[c] ELSE 0

RECURSIVE StrLess(_, _)
StrLess(a, b) ==
    IF Len(a) = 0 THEN Len(b) > 0
    ELSE IF Len(b) = 0 THEN FALSE
    ELSE IF Ch(a, 1) = Ch(b, 1)
         THEN StrLess(SubSeq(a, 2, Len(a)), SubSeq(b, 2, Len(b)))
         ELSE Code(Ch(a, 1)) < Code(Ch(b, 1))

\* strings.HasSuffix
HasSuffix(s, suffix) ==
    /\ Len(s) >= Len(suffix)
    /\ SubSeq(s, Len(s) - Len(suffix) + 1, Len(s)) = suffix

HasPrefix(s, prefix) ==
    /\ Len(s) >= Len(prefix)
    /\ SubSeq(s, 1, Len(prefix)) = prefix

UpperCase == "ABCDEFGHIJKLMNOPQRSTUVWXYZ"
LowerCase == "abcdefghijklmnopqrstuvwxyz"

LowerOf == [c \in {Ch(UpperCase, i) : i \in 1..26} |->
               Ch(LowerCase, CHOOSE i \in 1..26 : Ch(UpperCase, i) = c)]

LowerCh(c) == IF c \in DOMAIN LowerOf THEN LowerOf[c] ELSE c

\* strings.ToLower
RECURSIVE ToLower(_)
ToLower(s) == IF Len(s) = 0 THEN ""
              ELSE LowerCh(Ch(s, 1)) \o ToLower(SubSeq(s, 2, Len(s)))

\* position of the first / last occurrence of the character c in s, 0 if none
RECURSIVE IndexFrom(_, _, _)
IndexFrom(s, c, i) == IF i > Len(s) THEN 0
                      ELSE IF Ch(s, i) = c THEN i
                      ELSE IndexFrom(s, c, i + 1)

IndexCh(s, c) == IndexFrom(s, c, 1)

RECURSIVE LastIndexFrom(_, _, _)
LastIndexFrom(s, c, i) == IF i < 1 THEN 0
                          ELSE IF Ch(s, i) = c THEN i
                          ELSE LastIndexFrom(s, c, i - 1)

LastIndexCh(s, c) == LastIndexFrom(s, c, Len(s))

\* strings.Split(s, sep) for a one-character separator: never empty
RECURSIVE Split(_, _)
Split(s, sep) ==
    LET i == IndexCh(s, sep)
    IN  IF i = 0 THEN <<s>>
        ELSE <<SubSeq(s, 1, i - 1)>> \o Split(SubSeq(s, i + 1, Len(s)), sep)

IsSpace(c) == c \in {" ", "\t", "\n", "\r"}

\* strings.TrimSpace
RECURSIVE TrimLeft(_)
TrimLeft(s) == IF Len(s) > 0 /\ IsSpace(Ch(s, 1))
               THEN TrimLeft(SubSeq(s, 2, Len(s))) ELSE s

RECURSIVE TrimRight(_)
TrimRight(s) == IF Len(s) > 0 /\ IsSpace(Ch(s, Len(s)))
                THEN TrimRight(SubSeq(s, 1, Len(s) - 1)) ELSE s

TrimSpace(s) == TrimRight(TrimLeft(s))

(***************************************************************************)
(* path/filepath on a Unix system (separator "/").                         *)
(***************************************************************************)
\* the elements kept by Clean: "" and "." dropped, ".." cancels an element
RECURSIVE CleanElems(_, _, _)
CleanElems(elems, out, rooted) ==
    IF elems = <<>> THEN out
    ELSE LET e == Head(elems)
             rest == Tail(elems)
         IN  IF e = "" \/ e = "." THEN CleanElems(rest, out, rooted)
             ELSE IF e = ".."
                  THEN IF out # <<>> /\ out[Len(out)] # ".."
                       THEN CleanElems(rest, SubSeq(out, 1, Len(out) - 1), rooted)
                       ELSE IF rooted THEN CleanElems(rest, out, rooted)
                       ELSE CleanElems(rest, Append(out, e), rooted)
                  ELSE CleanElems(rest, Append(out, e), rooted)

RECURSIVE JoinElems(_)
JoinElems(elems) ==
    IF elems = <<>> THEN ""
    ELSE IF Len(elems) = 1 THEN elems[1]
    ELSE elems[1] \o "/" \o JoinElems(Tail(elems))

\* filepath.Clean
Clean(path) ==
    IF path = "" THEN "."
    ELSE LET rooted == Ch(path, 1) = "/"
             out == CleanElems(Split(path, "/"), <<>>, rooted)
         IN  IF rooted THEN "/" \o JoinElems(out)
             ELSE IF out = <<>> THEN "." ELSE JoinElems(out)

\* filepath.Join of two elements: empty elements are ignored, the rest is
\* joined with "/" and cleaned
Join(a, b) ==
    IF a = "" /\ b = "" THEN ""
    ELSE IF a = "" THEN Clean(b)
    ELSE IF b = "" THEN Clean(a)
    ELSE Clean(a \o "/" \o b)

RECURSIVE StripSlashes(_)
StripSlashes(s) == IF Len(s) > 0 /\ Ch(s, Len(s)) = "/"
                   THEN StripSlashes(SubSeq(s, 1, Len(s) - 1)) ELSE s

\* filepath.Base
Base(path) ==
    IF path = "" THEN "."
    ELSE LET p == StripSlashes(path)
             q == SubSeq(p, LastIndexCh(p, "/") + 1, Len(p))
         IN  IF q = "" THEN "/" ELSE q

\* filepath.Ext: the suffix from the last dot of the last element
Ext(path) ==
    LET slash == LastIndexCh(path, "/")
        dot == LastIndexCh(path, ".")
    IN  IF dot > slash THEN SubSeq(path, dot, Len(path)) ELSE ""

\* filepath.Dir
Dir(path) == Clean(SubSeq(path, 1, LastIndexCh(path, "/")))

(***************************************************************************)
(* Errors.  An error value has a cause and the prefix that the wrapping    *)
(* calls fmt.Errorf("fmt: %w", err) put before it.                         *)
(***************************************************************************)
NoErr == [kind |-> "nil", prefix |-> "", cause |-> ""]
Running == [kind |-> "running", prefix |-> "", cause |-> ""]
\* filepath.SkipDir
SkipDir == [kind |-> "err", prefix |-> "", cause |-> "SkipDir"]
Err(cause) == [kind |-> "err", prefix |-> "", cause |-> cause]

\* fmt.Errorf("fmt: %w", err)
WrapNoPrefix(e) == e
Wrap(e) == [kind |-> "err", prefix |-> "fmt: " \o e.prefix, cause |-> e.cause]

(***************************************************************************)
(* The file system: a function from clean paths, relative to the working   *)
(* directory, to nodes.  The mode of a node holds the permission bits of   *)
(* its os.FileMode; the kind holds the type bits.                          *)
(***************************************************************************)
\* FileMode.Perm: the nine permission bits
Perm(mode) == mode % 512

FileNode(content, mode) ==
    [kind |-> "file", content |-> content, mode |-> mode, names |-> {}]
\* a directory holds the names of its entries
DirNode(names) == [kind |-> "dir", content |-> "", mode |-> 493, names |-> names]
Nil == [kind |-> "nil", content |-> "", mode |-> 0, names |-> {}]

\* file contents of the model and the states a partly written file can have
Contents == {"ab", "cd"}
Prefixes(c) == {SubSeq(c, 1, k) : k \in 0..(Len(c) - 1)}
AllContents == Contents \cup UNION {Prefixes(c) : c \in Contents}

\* "." is the working directory and ".." its parent, of which the file u.go
\* is part of the model
InitFS ==
    ("." :> DirNode({"p", "q"}))
    @@ (".." :> DirNode({"u.go"}))
    @@ ("../u.go" :> FileNode("ab", 420))
    @@ ("p" :> DirNode({".h", "a.go", "b_Test.go", "docs", "n.txt", "s", "vendor"}))
    @@ ("p/.h" :> DirNode({"h.go"}))
    @@ ("p/.h/h.go" :> FileNode("ab", 420))
    @@ ("p/a.go" :> FileNode("ab", 420))
    @@ ("p/b_Test.go" :> FileNode("ab", 420))
    @@ ("p/docs" :> DirNode({"d.go"}))
    @@ ("p/docs/d.go" :> FileNode("ab", 420))
    @@ ("p/n.txt" :> FileNode("cd", 384))
    @@ ("p/s" :> DirNode({"b.go"}))
    @@ ("p/s/b.go" :> FileNode("cd", 493))
    @@ ("p/vendor" :> DirNode({"m"}))
    @@ ("p/vendor/m" :> DirNode({"c.go"}))
    @@ ("p/vendor/m/c.go" :> FileNode("cd", 292))
    @@ ("q" :> DirNode({"d.go", "e.go"}))
    @@ ("q/d.go" :> DirNode({}))
    @@ ("q/e.go" :> FileNode("ab", 420))

\* the node a path names
Key(path) == Clean(path)
Exists(fsys, path) == Key(path) \in DOMAIN fsys
Node(fsys, path) == IF Exists(fsys, path) THEN fsys[Key(path)] ELSE Nil

RECURSIVE SortNames(_)
SortNames(names) ==
    IF names = {} THEN <<>>
    ELSE LET least == CHOOSE n \in names : \A m \in names \ {n} : StrLess(n, m)
         IN  <<least>> \o SortNames(names \ {least})

\* readDirNames of filepath.Walk: the names of the entries, sorted
ReadDirNames(fsys, path) == SortNames(Node(fsys, path).names)

\* the entry of a path is put into / taken out of its directory, where the
\* directory is part of the model
Link(fsys, k) ==
    IF Dir(k) \in DOMAIN fsys /\ Dir(k) # k
    THEN [fsys EXCEPT ![Dir(k)].names = @ \cup {Base(k)}] ELSE fsys
Unlink(fsys, k) ==
    IF Dir(k) \in DOMAIN fsys /\ Dir(k) # k
    THEN [fsys EXCEPT ![Dir(k)].names = @ \ {Base(k)}] ELSE fsys

\* a new file with O_CREATE|O_EXCL
Create(fsys, name, mode) ==
    (Key(name) :> FileNode("", mode)) @@ Link(fsys, Key(name))

\* os.Remove: an entry that does not exist is an error, which write ignores
RemoveKeepsFile(fsys, name) == fsys
Remove(fsys, name) ==
    IF Exists(fsys, name)
    THEN LET unlinked == Unlink(fsys, Key(name))
         IN  [k \in DOMAIN fsys \ {Key(name)} |-> unlinked[k]]
    ELSE fsys

\* os.Chmod: sets the permission bits of the file
ChmodKeepsMode(fsys, name, mode) == fsys
Chmod(fsys, name, mode) ==
    [fsys EXCEPT ![Key(name)].mode = Perm(mode)]

\* os.Rename: the entry newpath names is replaced in one step
Rename(fsys, oldpath, newpath) ==
    LET node == fsys[Key(oldpath)]
        moved == Link(Unlink(fsys, Key(oldpath)), Key(newpath))
    IN  [k \in (DOMAIN fsys \ {Key(oldpath)}) \cup {Key(newpath)} |->
            IF k = Key(newpath) THEN node ELSE moved[k]]

\* the name os.CreateTemp(dir, pattern) makes: dir, the pattern, a random string
TempSuffixes == {"1", "2"}
TempName(dir, pattern, random) ==
    IF HasSuffix(dir, "/") THEN dir \o pattern \o random
    ELSE dir \o "/" \o pattern \o random

(***************************************************************************)
(* The formatter (swag.Formatter.Format) is a pure function of the file    *)
(* name and the contents that returns the formatted contents or an error.  *)
(* Its answers are not fixed by this package: each answer is chosen when   *)
(* it is first asked for and is the same from then on.  "!" is an error.   *)
(***************************************************************************)
Results == Contents \cup {"!"}

\* what the formatter can tell apart in a file name: Run passes "", Build
\* passes the path of the file
PathClass(fileName) == IF fileName = "" THEN "stream" ELSE "file"

Question(fileName, contents) == <<PathClass(fileName), contents>>

Questions == {"stream", "file"} \X AllContents

\* the answers Format may give to a question, given the answers so far
Answers(memo, fileName, contents) ==
    IF memo[Question(fileName, contents)] = "?" THEN Results
    ELSE {memo[Question(fileName, contents)]}

Remember(memo, fileName, contents, answer) ==
    [memo EXCEPT ![Question(fileName, contents)] = answer]

(***************************************************************************)
(* Configurations passed to Build.                                         *)
(***************************************************************************)
Configs ==
    { [SearchDir |-> "p", Excludes |-> ""],
      [SearchDir |-> "p,q", Excludes |-> " p/s/ ,,p/a.go"],
      [SearchDir |-> "p,z", Excludes |-> ""],
      [SearchDir |-> "p/s,p", Excludes |-> ""],
      [SearchDir |-> "p,p/vendor/m", Excludes |-> ""],
      [SearchDir |-> ".", Excludes |-> "./q, p/s"],
      [SearchDir |-> "p/,..", Excludes |-> "p/, p/a ,b.go"] }

defaultExcludes == <<"docs", "vendor">>

VARIABLES
    fs,          \* the file system
    exclude,     \* Format.exclude: the paths mapped to true
    xf,          \* the answers the formatter has given
    pc,          \* where the program is
    searchDirs,  \* Build: the split search directories
    wi,          \* Build: index of the next search directory to walk
    stack,       \* filepath.Walk: the paths still to walk, next first
    path,        \* format, write: the file being formatted
    original,    \* format: the contents read
    formatted,   \* format: the contents the formatter returned
    info,        \* write: originalFileInfo
    tmp,         \* write: f.Name(), "" before CreateTemp
    result,      \* what the last Build returned
    out,         \* the last Run: its input, what dst received, what it returned
    faults,      \* system calls that have failed
    builds,      \* Build calls made
    runs,        \* Run calls made
    cfg,         \* history: the configuration of the last Build call
    fs0,         \* history: the file system when the last Build was called
    prev,        \* history: configuration and result of the Build call before
    past,        \* history: the configurations of all earlier Build calls
    visited,     \* history: the paths visit was called with in this Build
    pruned,      \* history: the paths visit returned SkipDir for in this Build
    piped,       \* history: the paths format was called with in this Build
    asked,       \* history: the paths whose contents the formatter got
    renamed,     \* history: the paths write renamed a new file onto
    walkFailed   \* history: the paths whose lstat or listing failed in this Build

vars == <<fs, exclude, xf, pc, searchDirs, wi, stack, path, original, formatted,
          info, tmp, result, out, faults, builds, runs, cfg, fs0, prev, past,
          visited, pruned, piped, asked, renamed, walkFailed>>

progVars == <<searchDirs, wi, stack, path, original, formatted, info, tmp>>
histVars == <<cfg, fs0, prev, past, visited, pruned, piped, asked, renamed,
              walkFailed>>

NoConfig == [SearchDir |-> "", Excludes |-> ""]
NoRun == [in |-> "", got |-> "", err |-> Running]

\* New, in an unchanged file system
Init ==
    /\ fs = InitFS
    /\ exclude = {}
    /\ xf = [q \in Questions |-> "?"]
    /\ pc = "idle"
    /\ searchDirs = <<>>
    /\ wi = 1
    /\ stack = <<>>
    /\ path = ""
    /\ original = ""
    /\ formatted = ""
    /\ info = Nil
    /\ tmp = ""
    /\ result = Running
    /\ out = NoRun
    /\ faults = 0
    /\ builds = 0
    /\ runs = 0
    /\ cfg = NoConfig
    /\ fs0 = InitFS
    /\ prev = [cfg |-> NoConfig, result |-> Running]
    /\ past = {}
    /\ visited = <<>>
    /\ pruned = {}
    /\ piped = <<>>
    /\ asked = <<>>
    /\ renamed = <<>>
    /\ walkFailed = {}

\* whether the next system call may fail
MayFail == IF faults < MaxFaults THEN {FALSE, TRUE} ELSE {FALSE}

(***************************************************************************)
(* Build, lines 47-60: the search directories are checked and the          *)
(* exclusion map is filled.                                                *)
(***************************************************************************)
\* os.Stat and os.IsNotExist of line 49.  Another error of os.Stat is not
\* looked at by Build, so only existence decides.
IsNotExistNever(fsys, dir) == FALSE
IsNotExist(fsys, dir) == ~Exists(fsys, dir)

\* the loop of lines 48-55 from index i on
RECURSIVE CheckDirs(_, _, _, _)
CheckDirs(fsys, dirs, i, excl) ==
    IF i > Len(dirs) THEN [err |-> NoErr, exclude |-> excl]
    ELSE IF IsNotExist(fsys, dirs[i])
         THEN [err |-> Wrap(Err("not exist")), exclude |-> excl]
         ELSE CheckDirs(fsys, dirs, i + 1,
                        excl \cup {Join(dirs[i], defaultExcludes[d]) :
                                      d \in 1..Len(defaultExcludes)})

\* the loop of lines 56-60
RECURSIVE AddExcludes(_, _)
AddExcludes(tokens, excl) ==
    IF tokens = <<>> THEN excl
    ELSE LET fi == TrimSpace(Head(tokens))
         IN  AddExcludes(Tail(tokens),
                         IF fi # "" THEN excl \cup {Clean(fi)} ELSE excl)

Build(config) ==
    /\ pc = "idle"
    /\ builds < MaxBuilds
    /\ LET dirs == Split(config.SearchDir, ",")
           checked == CheckDirs(fs, dirs, 1, exclude)
       IN  /\ searchDirs' = dirs
           /\ IF checked.err # NoErr
              THEN /\ exclude' = checked.exclude
                   /\ result' = checked.err
                   /\ pc' = "idle"
              ELSE /\ exclude' = AddExcludes(Split(config.Excludes, ","),
                                             checked.exclude)
                   /\ result' = Running
                   /\ pc' = "loop"
    /\ wi' = 1
    /\ stack' = <<>>
    /\ builds' = builds + 1
    /\ prev' = [cfg |-> cfg, result |-> result]
    /\ past' = IF builds = 0 THEN {} ELSE past \cup {cfg}
    /\ cfg' = config
    /\ fs0' = fs
    /\ visited' = <<>>
    /\ pruned' = {}
    /\ piped' = <<>>
    /\ asked' = <<>>
    /\ renamed' = <<>>
    /\ walkFailed' = {}
    /\ UNCHANGED <<fs, xf, path, original, formatted, info, tmp, out, faults, runs>>

(***************************************************************************)
(* Build, lines 61-67: the search directories are walked in order.         *)
(***************************************************************************)
\* the loop head: the next filepath.Walk starts, or Build returns nil
BuildLoop ==
    /\ pc = "loop"
    /\ IF wi <= Len(searchDirs)
       THEN /\ stack' = <<searchDirs[wi]>>
            /\ wi' = wi + 1
            /\ pc' = "walk"
            /\ UNCHANGED result
       ELSE /\ pc' = "idle"
            /\ result' = NoErr
            /\ UNCHANGED <<stack, wi>>
    /\ UNCHANGED <<fs, exclude, xf, searchDirs, path, original, formatted, info,
                   tmp, out, faults, builds, runs>>
    /\ UNCHANGED histVars

\* where the program goes when the walk of an entry is over
AfterEntry(rest) == IF rest = <<>> THEN "loop" ELSE "walk"

(***************************************************************************)
(* visit and format, lines 70-111.                                         *)
(***************************************************************************)
excludeDirPrefixMatch(excl, p) ==
    \/ \E e \in excl : HasPrefix(p, e)
    \/ Ch(Base(p), 1) = "." /\ Len(Base(p)) > 1
excludeDir(excl, p) ==
    \/ p \in excl
    \/ Ch(Base(p), 1) = "." /\ Len(Base(p)) > 1

excludeFileNoSuffixRule(excl, p) ==
    \/ p \in excl
    \/ Ext(p) # ".go"
excludeFile(excl, p) ==
    \/ p \in excl
    \/ HasSuffix(ToLower(p), "_test.go")
    \/ Ext(p) # ".go"

\* bytes.Equal of line 106
EqualNever(a, b) == FALSE
EqualAlways(a, b) == TRUE
Equal(a, b) == a = b

\* What format(p) does up to the call of write.  fault names the system call
\* that fails in this step, answer is what the formatter returns if asked.
\*   ret: the error returned; write: write is entered, having passed os.Stat;
\*   asked: the formatter was called; hit: the failing system call was made.
format(fsys, p, fault, answer) ==
    LET node == Node(fsys, p)
        outcome(r, w, a, h) ==
            [ret |-> r, write |-> w, asked |-> a, hit |-> h, piped |-> TRUE]
    IN  IF fault = "read" THEN outcome(Err("read"), FALSE, FALSE, TRUE)
        ELSE IF node.kind # "file"
             THEN outcome(Err("is a directory"), FALSE, FALSE, FALSE)
        ELSE IF answer = "!" THEN outcome(Err("format"), FALSE, TRUE, FALSE)
        ELSE IF Equal(node.content, answer)
             THEN outcome(NoErr, FALSE, TRUE, FALSE)
        ELSE IF fault = "stat" THEN outcome(Err("stat"), FALSE, TRUE, TRUE)
        ELSE outcome(NoErr, TRUE, TRUE, FALSE)

\* visit(p, fileInfo, err) for a fileInfo that is not nil; err is not read
visit(fsys, excl, p, fileInfo, fault, answer) ==
    LET skip(r) == [ret |-> r, write |-> FALSE, asked |-> FALSE,
                      hit |-> FALSE, piped |-> FALSE]
    IN  IF fileInfo.kind = "dir" /\ excludeDir(excl, p) THEN skip(SkipDir)
        ELSE IF excludeFile(excl, p) THEN skip(NoErr)
        ELSE LET f == format(fsys, p, fault, answer)
             IN  IF f.ret # NoErr THEN [f EXCEPT !.ret = Wrap(f.ret)] ELSE f

\* whether walking p with this fault calls the formatter, and on what
WillAsk(fsys, excl, p, fault) ==
    /\ fault \notin {"lstat", "read"}
    /\ Node(fsys, p).kind = "file"
    /\ ~excludeFile(excl, p)

WalkFaults == IF faults < MaxFaults
              THEN {"none", "lstat", "readdir", "read", "stat"}
              ELSE {"none"}

(***************************************************************************)
(* filepath.Walk, one entry per step.  walk(p): lstat; for a directory     *)
(* the names are read, then walkFn is called with the error of reading     *)
(* them, and the entries are walked if both returned nil; a file is passed *)
(* to walkFn.  An entry that cannot be lstat-ed is passed to walkFn with a *)
(* nil FileInfo.  SkipDir for a directory skips it; any other error ends   *)
(* the walk and Build returns it (lines 62-65).                            *)
(***************************************************************************)
WalkEntry ==
    /\ pc = "walk"
    /\ LET p == Head(stack)
           rest == Tail(stack)
       IN  \E fault \in WalkFaults :
           \E answer \in (IF WillAsk(fs, exclude, p, fault)
                          THEN Answers(xf, p, Node(fs, p).content) ELSE {"!"}) :
           /\ visited' = Append(visited, p)
           /\ IF fault = "lstat" \/ ~Exists(fs, p)
              THEN \* visit calls fileInfo.IsDir() on a nil FileInfo: a panic
                   /\ pc' = "panic"
                   /\ faults' = IF fault = "lstat" THEN faults + 1 ELSE faults
                   /\ fault \in {"none", "lstat"}
                   /\ walkFailed' = walkFailed \cup {p}
                   /\ UNCHANGED <<stack, result, xf, path, original, formatted,
                                  info, pruned, piped, asked>>
              ELSE LET fileInfo == Node(fs, p)
                       isDir == fileInfo.kind = "dir"
                       readErr == isDir /\ fault = "readdir"
                       v == visit(fs, exclude, p, fileInfo, fault, answer)
                       names == ReadDirNames(fs, p)
                       entries == [i \in 1..Len(names) |-> Join(p, names[i])]
                   IN  /\ fault = "none" \/ readErr \/ v.hit
                       /\ faults' = IF fault = "none" THEN faults ELSE faults + 1
                       /\ walkFailed' = IF readErr THEN walkFailed \cup {p}
                                        ELSE walkFailed
                       /\ pruned' = IF v.ret = SkipDir THEN pruned \cup {p}
                                    ELSE pruned
                       /\ piped' = IF v.piped THEN Append(piped, p) ELSE piped
                       /\ asked' = IF v.asked THEN Append(asked, p) ELSE asked
                       /\ xf' = IF v.asked
                                THEN Remember(xf, p, fileInfo.content, answer)
                                ELSE xf
                       /\ IF v.write
                          THEN /\ pc' = "create"
                               /\ stack' = rest
                               /\ path' = p
                               /\ original' = fileInfo.content
                               /\ formatted' = answer
                               /\ info' = fileInfo
                               /\ UNCHANGED result
                          ELSE IF v.ret \notin {NoErr, SkipDir}
                          THEN /\ pc' = "idle"
                               /\ result' = v.ret
                               /\ stack' = <<>>
                               /\ UNCHANGED <<path, original, formatted, info>>
                          ELSE /\ stack' = IF isDir /\ ~readErr /\ v.ret = NoErr
                                           THEN entries \o rest ELSE rest
                               /\ pc' = AfterEntry(stack')
                               /\ UNCHANGED <<result, path, original, formatted,
                                              info>>
    /\ UNCHANGED <<fs, exclude, searchDirs, wi, tmp, out, builds, runs>>
    /\ UNCHANGED <<cfg, fs0, prev, past, renamed>>

(***************************************************************************)
(* write, lines 113-133, one system call per step.  os.Stat of line 114 is *)
(* part of the step that enters write.  A step that fails returns its      *)
(* error: the deferred os.Remove runs, visit wraps the error, the walk     *)
(* ends and Build returns.                                                 *)
(***************************************************************************)
WriteSteps == {"create", "write", "close", "chmod", "rename"}

\* the checks `if err != nil { return err }` of lines 119, 123, 126, 129
CheckedExceptClose(step, failed) == failed /\ step # "close"
Checked(step, failed) == failed

\* the file that f.Write of line 123 writes to: the temporary file
WrittenInPlace(target, temp) == target
Written(target, temp) == temp

\* write returns err
WriteReturns(err, fsys) ==
    /\ fs' = fsys
    /\ pc' = "idle"
    /\ result' = Wrap(Err(err))
    /\ stack' = <<>>
    /\ faults' = faults + 1
    /\ path' = ""
    /\ original' = ""
    /\ formatted' = ""
    /\ info' = Nil
    /\ tmp' = ""
    /\ UNCHANGED <<exclude, xf, searchDirs, wi, out, builds, runs>>
    /\ UNCHANGED histVars

\* write goes on to its next system call
WriteGoesOn(next, fsys, failed) ==
    /\ fs' = fsys
    /\ pc' = next
    /\ faults' = IF failed THEN faults + 1 ELSE faults
    /\ UNCHANGED <<exclude, xf, searchDirs, wi, stack, path, original, formatted,
                   info, tmp, result, out, builds, runs>>
    /\ UNCHANGED histVars

\* line 118: os.CreateTemp makes a new file of mode 0600 with a name that is
\* not in use
CreateTemp ==
    /\ pc = "create"
    /\ \E failed \in MayFail :
          IF Checked("create", failed)
          THEN WriteReturns("create", fs)
          ELSE \E random \in TempSuffixes :
                 LET name == TempName(Dir(path), Base(path), random)
                 IN  /\ ~Exists(fs, name)
                     /\ tmp' = name
                     /\ fs' = Create(fs, name, 384)
                     /\ pc' = "write"
                     /\ UNCHANGED <<exclude, xf, searchDirs, wi, stack, path,
                                    original, formatted, info, result, out,
                                    faults, builds, runs>>
                     /\ UNCHANGED histVars

\* line 123: f.Write appends the contents byte by byte, or fails on the way
WriteTemp ==
    /\ pc = "write"
    /\ LET file == Written(path, tmp)
           sofar == IF Node(fs, file).content = original /\ file = path
                    THEN "" ELSE Node(fs, file).content
           more == SubSeq(formatted, 1, Len(sofar) + 1)
           wrote == [fs EXCEPT ![Key(file)].content = more]
       IN  \E failed \in MayFail :
             IF Checked("write", failed)
             THEN WriteReturns("write", Remove(fs, tmp))
             ELSE WriteGoesOn(IF more = formatted THEN "close" ELSE "write",
                              wrote, failed)

\* line 126: f.Close
CloseTemp ==
    /\ pc = "close"
    /\ \E failed \in MayFail :
          IF Checked("close", failed)
          THEN WriteReturns("close", Remove(fs, tmp))
          ELSE WriteGoesOn("chmod", fs, failed)

\* line 129: os.Chmod(f.Name(), originalFileInfo.Mode())
ChmodTemp ==
    /\ pc = "chmod"
    /\ \E failed \in MayFail :
          IF Checked("chmod", failed)
          THEN WriteReturns("chmod", Remove(fs, tmp))
          ELSE WriteGoesOn("rename", Chmod(fs, tmp, info.mode), failed)

\* line 132: os.Rename(f.Name(), path), then the deferred os.Remove(f.Name());
\* write returns what Rename returned
RenameTemp ==
    /\ pc = "rename"
    /\ \E failed \in MayFail :
          IF failed
          THEN WriteReturns("rename", Remove(fs, tmp))
          ELSE /\ fs' = Remove(Rename(fs, tmp, path), tmp)
               /\ renamed' = Append(renamed, path)
               /\ pc' = AfterEntry(stack)
               /\ path' = ""
               /\ original' = ""
               /\ formatted' = ""
               /\ info' = Nil
               /\ tmp' = ""
               /\ UNCHANGED <<exclude, xf, searchDirs, wi, stack, result, out,
                              faults, builds, runs>>
               /\ UNCHANGED <<cfg, fs0, prev, past, visited, pruned, piped, asked,
                              walkFailed>>

(***************************************************************************)
(* Run, lines 136-150.                                                     *)
(***************************************************************************)
\* the contents Run hands to the formatter and the bytes it copies to dst
RunCopiesInput(contents, answer) == contents
RunResult(contents, answer) == answer

Run(input) ==
    /\ pc = "idle"
    /\ runs < MaxRuns
    /\ runs' = runs + 1
    /\ \E fault \in (IF faults < MaxFaults THEN {"none", "read", "copy"}
                     ELSE {"none"}) :
          IF fault = "read"
          THEN /\ out' = [in |-> input, got |-> "", err |-> Err("read")]
               /\ faults' = faults + 1
               /\ xf' = xf
          ELSE \E answer \in Answers(xf, "", input) :
                 /\ xf' = Remember(xf, "", input, answer)
                 /\ IF answer = "!"
                    THEN /\ fault = "none"
                         /\ out' = [in |-> input, got |-> "", err |-> Err("format")]
                         /\ faults' = faults
                    ELSE IF fault = "copy"
                    THEN /\ \E part \in Prefixes(RunResult(input, answer)) :
                              out' = [in |-> input, got |-> part,
                                      err |-> Err("copy")]
                         /\ faults' = faults + 1
                    ELSE /\ out' = [in |-> input,
                                    got |-> RunResult(input, answer),
                                    err |-> NoErr]
                         /\ faults' = faults
    /\ UNCHANGED <<fs, exclude, pc, result, builds>>
    /\ UNCHANGED progVars
    /\ UNCHANGED histVars

Next ==
    \/ \E config \in Configs : Build(config)
    \/ BuildLoop
    \/ WalkEntry
    \/ CreateTemp
    \/ WriteTemp
    \/ CloseTemp
    \/ ChmodTemp
    \/ RenameTemp
    \/ \E input \in Contents : Run(input)

Spec == Init /\ [][Next]_vars

(***************************************************************************)
(* Vocabulary of the properties.                                           *)
(***************************************************************************)
\* the search directories of the last Build call
Roots == Split(cfg.SearchDir, ",")

\* the Build call in progress or last made was given a missing directory
MissingRoot == \E i \in 1..Len(Roots) : ~Exists(fs0, Roots[i])

\* the last Build call has returned
Returned == builds > 0 /\ pc = "idle"

\* k lies below the directory d
Below(k, d) ==
    IF Key(d) = "." THEN Key(k) # "." /\ ~HasPrefix(Key(k), "..")
    ELSE HasPrefix(Key(k), Key(d) \o "/")

\* the files the file system held when Build was called
Files0 == {k \in DOMAIN fs0 : fs0[k].kind = "file"}

\* what the formatter has returned for files so far
FormatterOutputs == {xf[q] : q \in Questions} \ {"?", "!"}

Occurrences(seq, x) == Cardinality({i \in 1..Len(seq) : seq[i] = x})

InSeq(seq, x) == \E i \in 1..Len(seq) : seq[i] = x

(***************************************************************************)
(* C1: when one of the configured roots does not exist, Build returns an   *)
(* error and has changed no file: the existence of every root is checked   *)
(* before the walk of any root starts (nothing is visited).                *)
(***************************************************************************)
C1_MissingRootFailsFast ==
    (builds > 0 /\ MissingRoot) =>
        /\ pc = "idle"
        /\ result.kind = "err"
        /\ fs = fs0
        /\ visited = <<>>

\* a Build with a missing root after an existing root that holds a file the
\* formatter is known to change
C1_Witness ==
    /\ Returned
    /\ MissingRoot
    /\ Exists(fs0, Roots[1])
    /\ \E k \in Files0 :
          /\ Below(k, Roots[1])
          /\ Ext(k) = ".go"
          /\ k \notin exclude
          /\ xf[<<"file", fs0[k].content>>] \in Contents \ {fs0[k].content}

(***************************************************************************)
(* C2: in every state of the replacement of a file, the content at the     *)
(* target path is the complete original content or the complete new        *)
(* content; no file of the tree ever holds a partly written content.       *)
(***************************************************************************)
C2_TargetNeverPartial ==
    /\ pc \in WriteSteps =>
          /\ Exists(fs, path)
          /\ Node(fs, path).content \in {original, formatted}
    /\ \A k \in Files0 :
          /\ k \in DOMAIN fs
          /\ fs[k].content \in {fs0[k].content} \cup FormatterOutputs

\* the temporary file is half written while the target is whole
C2_Witness ==
    /\ pc = "write"
    /\ Node(fs, tmp).content \in Prefixes(formatted) \ {""}
    /\ Node(fs, path).content = original
    /\ original # formatted

(***************************************************************************)
(* C3: when write, close, chmod or rename fails, the call returns the      *)
(* error to the caller of Build and the target file has its original       *)
(* content and permission bits.                                            *)
(***************************************************************************)
C3_FailureLeavesTarget ==
    [][(pc \in {"write", "close", "chmod", "rename"} /\ faults' > faults) =>
          /\ pc' = "idle"
          /\ result'.kind = "err"
          /\ result'.cause = pc
          /\ Node(fs', path).content = original
          /\ Node(fs', path).mode = info.mode
          /\ Node(fs', path) = Node(fs, path)]_vars

\* Build has returned the error of a failed step of the replacement
C3_Witness ==
    /\ Returned
    /\ result.kind = "err"
    /\ result.cause \in {"write", "close", "chmod", "rename"}
    /\ fs = fs0

(***************************************************************************)
(* C4: whenever no replacement is in progress, the names in every          *)
(* directory are the names it had before: no temporary file is left, on    *)
(* success or on failure.                                                  *)
(***************************************************************************)
C4_NoTempFileLeft ==
    pc \notin WriteSteps =>
        /\ DOMAIN fs = DOMAIN fs0
        /\ \A k \in DOMAIN fs0 : fs[k].names = fs0[k].names

\* one replacement succeeded and a later one failed after creating its file
C4_Witness ==
    /\ Returned
    /\ renamed # <<>>
    /\ result.cause \in {"write", "close", "chmod", "rename"}

(***************************************************************************)
(* C5: every file Build has rewritten has the permission bits it had       *)
(* before the rewrite.                                                     *)
(***************************************************************************)
C5_PermissionsPreserved ==
    \A i \in 1..Len(renamed) :
        Perm(Node(fs, renamed[i]).mode) = Perm(Node(fs0, renamed[i]).mode)

\* files of modes 0644 and 0755 were rewritten with a new content
C5_Witness ==
    /\ \E i \in 1..Len(renamed) : Node(fs0, renamed[i]).mode = 420
    /\ \E i \in 1..Len(renamed) : Node(fs0, renamed[i]).mode = 493
    /\ \A i \in 1..Len(renamed) :
          Node(fs, renamed[i]).content # Node(fs0, renamed[i]).content

(***************************************************************************)
(* C6: a Build with the configuration of the Build before it, over the     *)
(* tree that Build left, with no system call failing, renames nothing      *)
(* and leaves every file's content as it was.                              *)
(***************************************************************************)
SameConfigAgain == builds >= 2 /\ cfg = prev.cfg /\ faults = 0

NothingRewritten ==
    /\ renamed = <<>>
    /\ \A k \in Files0 : k \in DOMAIN fs /\ fs[k].content = fs0[k].content

\* the claim as stated, for any formatter
C6_SecondRunWritesNothing == SameConfigAgain => NothingRewritten

\* no answer of the formatter so far is changed by the formatter
IdempotentFormatter ==
    \A c \in AllContents :
        xf[<<"file", c>>] \in Contents =>
            xf[<<"file", xf[<<"file", c>>]>>] \in {"?", xf[<<"file", c>>]}

\* C6 as amended: the claim holds for a formatter that leaves its own
\* output unchanged
C6_SecondRunWritesNothingIfIdempotent ==
    (SameConfigAgain /\ IdempotentFormatter) => NothingRewritten

\* the first run rewrote a file, the second run with the same configuration
\* has returned nil after asking the formatter again
C6_Witness ==
    /\ SameConfigAgain
    /\ IdempotentFormatter
    /\ Returned
    /\ result = NoErr
    /\ prev.result = NoErr
    /\ asked # <<>>
    /\ \E k \in Files0 : fs0[k].content # InitFS[k].content

(***************************************************************************)
(* C7: no entry below a hidden directory, below <root>/docs or             *)
(* <root>/vendor of a configured root, or below a user-excluded directory  *)
(* is visited, and when Build returns nil every eligible file under a root *)
(* and outside those subtrees has gone through the pipeline.               *)
(***************************************************************************)
UserExcluded ==
    {Clean(t) :
        t \in {TrimSpace(Split(cfg.Excludes, ",")[i]) :
                  i \in 1..Len(Split(cfg.Excludes, ","))} \ {""}}

PrunedDirs ==
    {d \in DOMAIN fs0 :
        /\ fs0[d].kind = "dir"
        /\ \/ Ch(Base(d), 1) = "."
           \/ \E i \in 1..Len(Roots) : d \in {Join(Roots[i], "docs"),
                                             Join(Roots[i], "vendor")}
           \/ d \in UserExcluded}

InPruned(k) == \E d \in PrunedDirs : Below(k, d)

UnderRoot(k) == \E i \in 1..Len(Roots) : Key(k) = Key(Roots[i]) \/ Below(k, Roots[i])

\* the eligibility of a file as the specification words it
Eligible(k) ==
    /\ k \notin exclude
    /\ ~HasSuffix(ToLower(Base(k)), "_test.go")
    /\ Ext(Base(k)) = ".go"

C7_ExcludedSubtreesPruned ==
    /\ \A i \in 1..Len(visited) : ~InPruned(visited[i])
    /\ (Returned /\ result = NoErr) =>
          \A k \in Files0 :
              (UnderRoot(k) /\ ~InPruned(k) /\ Eligible(k)) => InSeq(piped, k)

(***************************************************************************)
(* C8: a file that visit is called with goes to format exactly when it is  *)
(* eligible (not in the exclusion set, name not ending in _test.go in any  *)
(* case, extension .go); its contents then reach the formatter unless      *)
(* reading it fails.  Any other file is skipped: nothing is read, asked,   *)
(* written or returned.                                                    *)
(***************************************************************************)
VisitsFile ==
    /\ pc = "walk"
    /\ pc' # "panic"
    /\ Node(fs, Head(stack)).kind = "file"

C8_EligibleFilesFormatted ==
    [][VisitsFile =>
        LET p == Head(stack)
        IN  /\ (piped' = Append(piped, p)) <=> Eligible(p)
            /\ piped' # piped <=> Eligible(p)
            /\ Eligible(p) =>
                  ((asked' = Append(asked, p)) <=> result'.cause # "read")
            /\ ~Eligible(p) =>
                  /\ asked' = asked
                  /\ xf' = xf
                  /\ fs' = fs
                  /\ faults' = faults
                  /\ result' = result
                  /\ stack' = Tail(stack)
                  /\ pc' \in {"walk", "loop"}]_vars

\* a.go was formatted; b_Test.go and n.txt were visited and skipped
C8_Witness ==
    /\ InSeq(asked, "p/a.go")
    /\ InSeq(visited, "p/b_Test.go") /\ ~InSeq(piped, "p/b_Test.go")
    /\ InSeq(visited, "p/n.txt") /\ ~InSeq(piped, "p/n.txt")
    /\ Returned /\ result = NoErr

(***************************************************************************)
(* C9: what a Run that returned nil wrote equals the content that a file   *)
(* which held the input and went through the pipeline has after a Build    *)
(* that returned nil.                                                      *)
(***************************************************************************)
RunOK == out.err = NoErr
BuildOK == Returned /\ result = NoErr

\* the claim as stated
C9_RunEqualsBuild ==
    (RunOK /\ BuildOK) =>
        \A k \in Files0 :
            (InSeq(piped, k) /\ fs0[k].content = out.in) =>
                fs[k].content = out.got

\* C9 as amended: for a formatter whose answer for the input is the same
\* with the empty file name and with the file's path, and a file that went
\* through the pipeline once in that Build
C9_RunEqualsBuildSamePathOnce ==
    (RunOK /\ BuildOK) =>
        \A k \in Files0 :
            ( /\ InSeq(piped, k)
              /\ fs0[k].content = out.in
              /\ xf[<<"stream", out.in>>] = xf[<<"file", out.in>>]
              /\ Occurrences(piped, k) = 1 ) =>
                fs[k].content = out.got

\* Run and Build both changed the input, in the same way
C9_Witness ==
    /\ RunOK
    /\ BuildOK
    /\ out.got # out.in
    /\ \E k \in Files0 :
          /\ Occurrences(piped, k) = 1
          /\ InSeq(renamed, k)
          /\ fs0[k].content = out.in
          /\ xf[<<"stream", out.in>>] = xf[<<"file", out.in>>]

(***************************************************************************)
(* C10: when lstat of an entry or the listing of a directory fails during  *)
(* the walk, Build returns that failure wrapped with the prefix "fmt: ";   *)
(* it neither goes on as if nothing had happened nor panics.               *)
(***************************************************************************)
C10_WalkFailureReturned ==
    walkFailed # {} =>
        /\ pc = "idle"
        /\ result.kind = "err"
        /\ HasPrefix(result.prefix, "fmt: ")
        /\ result.cause \in {"lstat", "readdir"}

(***************************************************************************)
(* C11: a directory that visit is called with and that is not in the       *)
(* exclusion set is skipped exactly when its base name starts with "." and *)
(* has more than one character, and a directory whose base name is "." or  *)
(* ".." is not skipped, so that a root "." or ".." is walked.              *)
(***************************************************************************)
\* the i-th call of visit got a FileInfo
VisitReturned(i) == ~(pc = "panic" /\ i = Len(visited))

C11_HiddenDirRule ==
    \A i \in 1..Len(visited) :
        LET d == visited[i]
        IN  (VisitReturned(i) /\ Node(fs0, d).kind = "dir" /\ d \notin exclude) =>
                /\ d \in pruned <=> (Ch(Base(d), 1) = "." /\ Len(Base(d)) > 1)
                /\ Base(d) \in {".", ".."} => d \notin pruned

(***************************************************************************)
(* C12: the roots are walked in the configured order, and the first error  *)
(* of the per-file pipeline or of the walk makes Build return that error   *)
(* at once: after it nothing is visited, read, asked or written until the  *)
(* next Build call.                                                        *)
(***************************************************************************)
\* a failure of the walk or of the pipeline has happened in this Build
Failed == walkFailed # {} \/ result.kind = "err"

C12_FirstErrorEndsBuild ==
    [][ /\ (pc = "loop" /\ pc' = "walk") =>
              (stack' = <<Roots[wi]>> /\ wi' = wi + 1)
        /\ (builds' = builds /\ Failed' /\ ~Failed) =>
              (pc' = "idle" /\ result'.kind = "err")
        /\ (builds' = builds /\ Failed) =>
              (visited' = visited /\ piped' = piped /\ asked' = asked /\ fs' = fs)
      ]_vars

(***************************************************************************)
(* C13: every error of the per-file pipeline (reading the file, the        *)
(* formatter, os.Stat and the steps of the replacement) makes Build return *)
(* to its caller the error with that cause behind the prefix "fmt: ".      *)
(***************************************************************************)
PipelineCauses == {"read", "is a directory", "format", "stat"} \cup WriteSteps

\* the step in which the pipeline fails with the cause
PipelineFails(cause) ==
    LET p == Head(stack)
    IN  CASE cause \in WriteSteps -> pc = cause /\ faults' > faults
          [] cause = "read" ->
                /\ pc = "walk" /\ faults' > faults /\ walkFailed' = walkFailed
                /\ piped' # piped /\ asked' = asked
          [] cause = "is a directory" ->
                /\ pc = "walk" /\ faults' = faults /\ piped' # piped
                /\ Node(fs, p).kind = "dir"
          [] cause = "format" ->
                /\ pc = "walk" /\ asked' # asked
                /\ xf'[Question(p, Node(fs, p).content)] = "!"
          [] cause = "stat" ->
                pc = "walk" /\ faults' > faults /\ asked' # asked

C13_PipelineErrorsWrapped ==
    [][\A cause \in PipelineCauses :
          PipelineFails(cause) =>
              /\ pc' = "idle"
              /\ result' = [kind |-> "err", prefix |-> "fmt: ", cause |-> cause]
      ]_vars

\* Build has returned the wrapped error of the formatter after a file was
\* rewritten
C13_Witness ==
    /\ Returned
    /\ result = [kind |-> "err", prefix |-> "fmt: ", cause |-> "format"]
    /\ renamed # <<>>

(***************************************************************************)
(* C14: an entry of the exclusion set excludes a path exactly when the     *)
(* entry, trimmed and cleaned, is character for character the path that    *)
(* the walk passes to visit.  A directory without a hidden name is skipped *)
(* and a file with an eligible name is left out of the pipeline if and     *)
(* only if its walk path is such an entry; an entry that is a prefix or    *)
(* the base name of the walk path, or another spelling of it, excludes     *)
(* nothing.                                                                *)
(***************************************************************************)
RootsOf(config) == Split(config.SearchDir, ",")

\* the index of the first root of the configuration that does not exist
FirstMissing(config) ==
    IF \A i \in 1..Len(RootsOf(config)) : Exists(InitFS, RootsOf(config)[i])
    THEN Len(RootsOf(config)) + 1
    ELSE CHOOSE i \in 1..Len(RootsOf(config)) :
            /\ ~Exists(InitFS, RootsOf(config)[i])
            /\ \A j \in 1..(i - 1) : Exists(InitFS, RootsOf(config)[j])

\* the entries a Build call with the configuration registers: the built-in
\* names under the roots, up to a missing root, and the user's entries
DefaultEntries(config) ==
    {Join(RootsOf(config)[i], d) :
        i \in 1..(FirstMissing(config) - 1), d \in {"docs", "vendor"}}

UserEntries(config) ==
    IF FirstMissing(config) <= Len(RootsOf(config)) THEN {}
    ELSE {Clean(t) :
            t \in {TrimSpace(Split(config.Excludes, ",")[i]) :
                      i \in 1..Len(Split(config.Excludes, ","))} \ {""}}

EntriesOf(config) == DefaultEntries(config) \cup UserEntries(config)

\* the entries registered on the Format value up to the current Build call
Registered == UNION {EntriesOf(config) : config \in past \cup {cfg}}

HiddenName(p) == Ch(Base(p), 1) = "." /\ Len(Base(p)) > 1

EligibleName(p) == ~HasSuffix(ToLower(p), "_test.go") /\ Ext(p) = ".go"

\* visit is called with the next entry of the walk and its FileInfo
VisitStep == pc = "walk" /\ pc' # "panic"

C14_ExactPathMatch ==
    [][VisitStep =>
          LET p == Head(stack)
          IN  /\ (Node(fs, p).kind = "dir" /\ ~HiddenName(p)) =>
                    (p \in pruned' <=> p \in Registered)
              /\ (Node(fs, p).kind = "file" /\ EligibleName(p)) =>
                    (piped' = Append(piped, p) <=> p \notin Registered)
      ]_vars

\* a Build has returned nil that had entries which are a prefix of a file it
\* formatted, the base name of a file it formatted, and another spelling of
\* a directory it walked
C14_Witness ==
    /\ Returned
    /\ result = NoErr
    /\ \E e \in UserEntries(cfg) : \E i \in 1..Len(piped) :
          HasPrefix(piped[i], e) /\ piped[i] # e /\ Base(piped[i]) # e
    /\ \E e \in UserEntries(cfg) : \E i \in 1..Len(piped) :
          Base(piped[i]) = e /\ piped[i] # e
    /\ \E e \in UserEntries(cfg) : \E i \in 1..Len(visited) :
          /\ Key(visited[i]) = Key(e)
          /\ visited[i] # e
          /\ visited[i] \notin pruned
          /\ Len(visited) > i

(***************************************************************************)
(* C15: a file whose contents the formatter has answered for is replaced   *)
(* (temporary file, chmod, rename) if and only if the answer differs from  *)
(* the contents read; when they are equal nothing of the file system       *)
(* changes and the walk goes on.                                           *)
(***************************************************************************)
\* the formatter is asked for the head of the walk in this step
Asks == pc = "walk" /\ asked' = Append(asked, Head(stack))

\* what the formatter has answered for the contents c of a file
Answer(c) == xf[<<"file", c>>]

C15_WriteIffChanged ==
    [][ /\ Asks =>
              LET p == Head(stack)
                  content == Node(fs, p).content
                  answer == xf'[Question(p, content)]
              IN  answer # "!" =>
                    /\ fs' = fs
                    /\ answer = content =>
                          /\ pc' \in {"walk", "loop"}
                          /\ stack' = Tail(stack)
                          /\ UNCHANGED <<tmp, path, renamed, result, faults>>
                    /\ (answer # content /\ faults' = faults) =>
                          /\ pc' = "create"
                          /\ path' = p
                          /\ original' = content
                          /\ formatted' = answer
        /\ pc' \in WriteSteps => original' # formatted'
        /\ fs' # fs => pc \in WriteSteps
        /\ (renamed' # renamed /\ builds' = builds) =>
              /\ renamed' = Append(renamed, path)
              /\ Node(fs, path).content = original
              /\ Node(fs', path).content = formatted
        /\ BuildOK' =>
              \A k \in Files0 :
                  /\ Occurrences(piped', k) = 1 =>
                        (InSeq(renamed', k) <=> Answer(fs0[k].content)' # fs0[k].content)
                  /\ ~InSeq(renamed', k) => fs'[k] = fs0[k]
      ]_vars

\* a Build has returned nil in which the formatter gave one file back as it
\* was and changed another
C15_Witness ==
    /\ BuildOK
    /\ \E k \in Files0 :
          /\ InSeq(asked, k)
          /\ ~InSeq(renamed, k)
          /\ Answer(fs0[k].content) = fs0[k].content
          /\ fs[k] = fs0[k]
    /\ \E k \in Files0 :
          /\ InSeq(renamed, k)
          /\ fs[k].content # fs0[k].content
          /\ fs[k].content = Answer(fs0[k].content)

(***************************************************************************)
(* C16: the exclusions of a Build call are those of its own configuration: *)
(* a directory without a hidden name is skipped, and a file with an        *)
(* eligible name is kept from the pipeline, exactly when its walk path is  *)
(* an entry of the configuration of this call, whatever earlier Build      *)
(* calls on the same Format value have registered.                         *)
(***************************************************************************)
C16_ExclusionsOfThisCall ==
    [][VisitStep =>
          LET p == Head(stack)
          IN  /\ (Node(fs, p).kind = "dir" /\ ~HiddenName(p)) =>
                    (p \in pruned' <=> p \in EntriesOf(cfg))
              /\ (Node(fs, p).kind = "file" /\ EligibleName(p)) =>
                    (piped' = Append(piped, p) <=> p \notin EntriesOf(cfg))
      ]_vars

(***************************************************************************)
(* C17: when Build returns nil, every eligible file has gone through the   *)
(* pipeline exactly once, whatever the list of roots, and the entries      *)
(* below a directory are visited before anything outside it is visited.    *)
(***************************************************************************)
\* a file under a root that the exclusion map, the rules for names and the
\* directories on its way let through
EligibleFile(k) ==
    /\ UnderRoot(k)
    /\ Eligible(k)
    /\ \A d \in DOMAIN fs0 :
          (fs0[d].kind = "dir" /\ Below(k, d) /\ UnderRoot(d)) =>
              (d \notin exclude /\ ~HiddenName(d))

C17_OncePerEligibleFile ==
    /\ BuildOK =>
          \A k \in Files0 : EligibleFile(k) => Occurrences(piped, k) = 1
    /\ \A i, j, l \in 1..Len(visited) :
          (i < j /\ j < l /\ Below(visited[l], visited[i])) =>
              Below(visited[j], visited[i])

(***************************************************************************)
(* C18: only files go through the pipeline: format is never called with a  *)
(* directory, whatever the directory's name, and no directory makes Build  *)
(* return an error.                                                        *)
(***************************************************************************)
C18_DirectoriesNotFormatted ==
    /\ \A i \in 1..Len(piped) : Node(fs0, piped[i]).kind # "dir"
    /\ result.cause # "is a directory"

(***************************************************************************)
(* C19: when Build has returned the error of the pipeline for some file,   *)
(* every file that went through the pipeline before it holds the           *)
(* formatter's answer for the contents it had when Build was called, with  *)
(* its permission bits, while the failing file and every file the walk had *)
(* not come to yet are the nodes they were when Build was called.          *)
(***************************************************************************)
AbortedAtFile ==
    /\ Returned
    /\ result.kind = "err"
    /\ result.cause \in PipelineCauses
    /\ piped # <<>>

C19_NoRollback ==
    AbortedAtFile =>
        LET n == Len(piped)
            before == {piped[i] : i \in 1..(n - 1)}
        IN  \A k \in Files0 :
                /\ k \in before =>
                      /\ fs[k].content = Answer(fs0[k].content)
                      /\ Perm(fs[k].mode) = Perm(fs0[k].mode)
                /\ (k = piped[n] \/ k \notin before) => fs[k] = fs0[k]

====
